---- MODULE Spec2Model ----
(***************************************************************************)
(* AudioTransVox: the capture session of src/audio_capture.rs.             *)
(*                                                                         *)
(* Two threads share one output file: the controller, which calls          *)
(* AudioCapture::start and AudioCapture::stop, and the producer, the       *)
(* device thread that runs the data callback built by                      *)
(* AudioCapture::capture.  The file is a sequence of bytes with one        *)
(* cursor (the std::fs::File behind the Arc<Mutex<File>>); the mutex is    *)
(* `lock` with its poison flag.                                            *)
(*                                                                         *)
(* Integers: the model's byte counts stay far below 2^31, so u16/u32/u64   *)
(* arithmetic never wraps inside the bounds; the width of a value is kept  *)
(* where the code fixes it, in the number of bytes to_le_bytes() yields.   *)
(***************************************************************************)
EXTENDS Integers, Sequences, FiniteSets, TLC

\* ------------------------------------------------------------------ bounds
MaxStarts == 2
MaxStops == 2
MaxCallbacks == 2
MaxFrames == 2
MaxErrors == 1

\* ------------------------------------------------------- program constants
HeaderLen == 44
RiffSizeOffset == 4
DataSizeOffset == 40

VARIABLES
    config,      \* the device's default output config (channels, rate, format)
    stream,      \* self.stream : Option<Stream>, with the stream's play state
    file,        \* self.file : Option<Arc<Mutex<File>>>, with the handle's id
    disk,        \* the file named file_name: whether it exists, and its bytes
    origin,      \* per byte of disk.bytes: the callback that wrote it (0: the controller)
    cursor,      \* the position of the current File handle
    lock,        \* the Mutex: "free", "callback" or "controller"
    poisoned,    \* the Mutex's poison flag
    cb,          \* the producer's position in the data callback
    data,        \* the buffer being delivered: data : &[T], frame after frame
    cbLeft,      \* samples of that buffer still to write
    cbSeq,       \* buffers delivered so far (delivery order)
    lenAtLock,   \* file length when the running callback took the lock
    ctl,         \* the controller's position
    file_size,   \* update_wav_header's local file_size
    startCalls,  \* start() calls so far
    stopCalls,   \* stop() calls so far
    stops,       \* stop() calls that finalized the header since the last start()
    appended,    \* bytes the callbacks wrote since the last start()
    lateBytes,   \* bytes the callbacks wrote after a finalize since the last start()
    framesDone,  \* frames of the callbacks that returned since the last start()
    everStopped, \* a stop() has paused a stream of this session
    errors,      \* stderr: lines the error callback has logged, and when the last
    main         \* main()'s capture command: its position, the `running` flag,
                 \* whether the Ctrl-C handler is installed, interrupt seen

vars == <<config, stream, file, disk, origin, cursor, lock, poisoned, cb, data,
          cbLeft, cbSeq, lenAtLock, ctl, file_size, startCalls, stopCalls, stops,
          appended, lateBytes, framesDone, everStopped, errors, main>>

\* ------------------------------------------------------------ device data
\* cpal::SampleFormat.  start() dispatches on ten kinds, by size_of and by what
\* ToPrimitive yields; the model draws the device's kind from one kind of each
\* size (unsigned 8-bit, signed 16-bit, 32-bit float, 64-bit float) and "Other",
\* any kind the non-exhaustive enum holds beside the ten.  The operators below
\* are defined on all ten.
SampleFormats == {"U8", "I16", "F32", "F64", "Other"}
ChannelCounts == {1, 2}
SampleRates == {48000}

DeviceConfigs == [channels : ChannelCounts, sample_rate : SampleRates,
                  sample_format : SampleFormats]

\* A device with more channels than two (config.channels is a u16 the device
\* reports; start() reads it and never compares it).
MultiChannelConfigs == [channels : {3}, sample_rate : SampleRates,
                        sample_format : SampleFormats]

IsFloat(fmt) == fmt \in {"F32", "F64"}
IsUnsigned(fmt) == fmt \in {"U8", "U16", "U32", "U64"}

\* The frames a buffer may hold: samples are 1 and -1 (1.0 and -1.0 for a float
\* kind; 1 and 0 for an unsigned kind), and a stereo frame has equal or opposite
\* channels.
Frames(cfg) ==
    LET lo == IF IsUnsigned(cfg.sample_format) THEN 0 ELSE -1
    IN  IF cfg.channels = 1 THEN {<<1>>, <<lo>>}
        ELSE {[c \in 1..cfg.channels |-> 1],
              [c \in 1..cfg.channels |-> IF c = 2 THEN lo ELSE 1]}

RECURSIVE Repeat(_, _)
Repeat(frame, n) == IF n = 0 THEN <<>> ELSE frame \o Repeat(frame, n - 1)

\* std::mem::size_of::<T>()
SizeOf(fmt) ==
    CASE fmt \in {"I8", "U8"} -> 1
      [] fmt \in {"I16", "U16"} -> 2
      [] fmt \in {"I32", "U32", "F32"} -> 4
      [] fmt \in {"I64", "U64", "F64"} -> 8

\* ------------------------------------------------------------------ bytes
RECURSIVE ToLeBytes(_, _)
\* n.to_le_bytes() of a k-byte unsigned integer
ToLeBytes(n, k) == IF k = 0 THEN <<>> ELSE <<n % 256>> \o ToLeBytes(n \div 256, k - 1)

Max(a, b) == IF a >= b THEN a ELSE b

\* write_all(buf) with the cursor at pos: overwrites, and extends the file when
\* the bytes reach past its end (a gap reads as zeros).
WriteAt(bytes, pos, buf) ==
    [i \in 1..Max(Len(bytes), pos + Len(buf)) |->
        IF i > pos /\ i <= pos + Len(buf) THEN buf[i - pos]
        ELSE IF i <= Len(bytes) THEN bytes[i] ELSE 0]

\* the little-endian unsigned integer of k bytes at offset off
RECURSIVE LeAt(_, _, _)
LeAt(bytes, off, k) ==
    IF k = 0 THEN 0 ELSE bytes[off + 1] + 256 * LeAt(bytes, off + 1, k - 1)

U16At(bytes, off) == LeAt(bytes, off, 2)
U32At(bytes, off) == LeAt(bytes, off, 4)

\* --------------------------------------------------------- write_wav_header
\* (mutant of BitsPerSample: the header always says 16 bits)
BitsPerSampleAlways16(fmt) == 16

BitsPerSample(fmt) ==
    CASE fmt \in {"I8", "U8"} -> 8
      [] fmt \in {"I16", "U16"} -> 16
      [] fmt \in {"I32", "U32", "F32"} -> 32
      [] fmt \in {"I64", "U64", "F64"} -> 64

AudioFormat(fmt) == IF IsFloat(fmt) THEN 3 ELSE 1

WavHeader(cfg) ==
    LET channels == cfg.channels
        sample_rate == cfg.sample_rate
        bits_per_sample == BitsPerSample(cfg.sample_format)
        audio_format == AudioFormat(cfg.sample_format)
        byte_rate == sample_rate * channels * (bits_per_sample \div 8)
        block_align == channels * (bits_per_sample \div 8)
    IN  <<82, 73, 70, 70>>              \* "RIFF"
        \o <<0, 0, 0, 0>>               \* ChunkSize placeholder
        \o <<87, 65, 86, 69>>           \* "WAVE"
        \o <<102, 109, 116, 32>>        \* "fmt "
        \o <<16, 0, 0, 0>>              \* Subchunk1Size
        \o ToLeBytes(audio_format, 2)
        \o ToLeBytes(channels, 2)
        \o ToLeBytes(sample_rate, 4)
        \o ToLeBytes(byte_rate, 4)
        \o ToLeBytes(block_align, 2)
        \o ToLeBytes(bits_per_sample, 2)
        \o <<100, 97, 116, 97>>         \* "data"
        \o <<0, 0, 0, 0>>               \* Subchunk2Size placeholder

\* ------------------------------------------------ the data callback's samples
\* (mutant of F32LeBytes: the sign of the sample is lost)
F32LeBytesNoSign(v) ==
    CASE v = 0 -> <<0, 0, 0, 0>>
      [] v = 1 -> <<0, 0, 128, 63>>
      [] v = -1 -> <<0, 0, 128, 63>>

\* f32::to_le_bytes() of the values a sample can take here (IEEE 754 binary32)
F32LeBytes(v) ==
    CASE v = 0 -> <<0, 0, 0, 0>>
      [] v = 1 -> <<0, 0, 128, 63>>
      [] v = -1 -> <<0, 0, 128, 191>>

\* f64::to_le_bytes() (IEEE 754 binary64)
F64LeBytes(v) ==
    CASE v = 0 -> <<0, 0, 0, 0, 0, 0, 0, 0>>
      [] v = 1 -> <<0, 0, 0, 0, 0, 0, 240, 63>>
      [] v = -1 -> <<0, 0, 0, 0, 0, 0, 240, 191>>

\* ToPrimitive::to_u8 / to_u16 / to_u64: None for a value the unsigned type
\* cannot hold (every negative integer; a float at or below -1.0), else the
\* value, a float's truncated.
ToUnsigned(v) == [some |-> v >= 0, val |-> IF v >= 0 THEN v ELSE 0]

\* What the callback writes for one sample: [ok |-> FALSE] when an unwrap()
\* on the conversion panics, else the bytes handed to write_all.
SampleBytes(fmt, v) ==
    LET u == ToUnsigned(v)
    IN  CASE SizeOf(fmt) = 1 ->
                IF u.some THEN [ok |-> TRUE, bytes |-> ToLeBytes(u.val, 1)]
                ELSE [ok |-> FALSE, bytes |-> <<>>]
          [] SizeOf(fmt) = 2 ->
                IF u.some THEN [ok |-> TRUE, bytes |-> ToLeBytes(u.val, 2)]
                ELSE [ok |-> FALSE, bytes |-> <<>>]
          [] SizeOf(fmt) = 4 -> [ok |-> TRUE, bytes |-> F32LeBytes(v)]
          [] SizeOf(fmt) = 8 ->
                IF u.some THEN [ok |-> TRUE, bytes |-> ToLeBytes(u.val, 8)]
                ELSE [ok |-> TRUE, bytes |-> F64LeBytes(v)]

\* (mutant of SamplesToWrite: one sample per frame, the other channels dropped)
SamplesToWriteOnePerFrame(buf) == Len(buf) \div config.channels

\* for frame in data.chunks(channels) { for &sample in frame { ... } }: every
\* sample of every frame is written, in the buffer's order.
SamplesToWrite(buf) == Len(buf)

\* write_all(bytes) that fails: the bytes that reached the file before the
\* error (none, or all but the last).
PartialCounts(n) == {0, n - 1}

\* ------------------------------------------------------- update_wav_header
\* file.write_all(&(file_size - 8).to_le_bytes()) at offset 4: file_size is
\* the u64 that seek() returns, so to_le_bytes() yields 8 bytes.
RiffSizeBytes(size) == ToLeBytes(size - 8, 8)

\* (mutant of DataSizeBytes: the data size computed like the RIFF size)
DataSizeBytesFromRiff(size) == ToLeBytes(size - 8, 4)

\* file.write_all(&(data_chunk_size as u32).to_le_bytes()) at offset 40
DataSizeBytes(size) == ToLeBytes(size - HeaderLen, 4)

\* ------------------------------------------------------------------- state
NoStream == [some |-> FALSE, id |-> 0, playing |-> FALSE]
NoFile == [some |-> FALSE, id |-> 0]
NoDisk == [exists |-> FALSE, bytes |-> <<>>]

Zeros(n) == [i \in 1..n |-> 0]

\* main(), Commands::Capture: pc "start" up to the Ctrl-C handler's installation,
\* then "loop", "stop", "done"; "killed" when an interrupt ended the process.
\* `running` is the AtomicBool, `handler` whether ctrlc::set_handler has run.
\* stderr before any error callback
NoErrors == [count |-> 0, last |-> 0]

MainNotRun == [pc |-> "none", running |-> TRUE, handler |-> FALSE, interrupted |-> FALSE]

\* main.rs, Commands::Capture, as AudioCapture::new returns: `running` is the
\* AtomicBool, `handler` whether ctrlc::set_handler has run, `interrupted`
\* whether a Ctrl-C has been delivered to the process.
MainAtStart == [pc |-> "start", running |-> TRUE, handler |-> FALSE, interrupted |-> FALSE]

\* AudioCapture::new, before any device callback
InitFields ==
    /\ stream = NoStream
    /\ file = NoFile
    /\ disk = NoDisk
    /\ origin = <<>>
    /\ cursor = 0
    /\ lock = "free"
    /\ poisoned = FALSE
    /\ cb = "idle"
    /\ data = <<>>
    /\ cbLeft = 0
    /\ cbSeq = 0
    /\ lenAtLock = 0
    /\ ctl = "ready"
    /\ file_size = 0
    /\ startCalls = 0
    /\ stopCalls = 0
    /\ stops = 0
    /\ appended = 0
    /\ lateBytes = 0
    /\ framesDone = 0
    /\ everStopped = FALSE
    /\ errors = NoErrors

\* The session used as a library: no main.rs around it.
InitSession == InitFields /\ main = MainNotRun

Init == config \in DeviceConfigs /\ InitSession

CallbackInFlight == cb \in {"lock", "write"}

\* What a failing step of start() leaves behind, in the order start() takes them.
StartOutcomes == {"ok", "no_device", "no_config", "create_failed", "build_failed",
                  "play_failed"}

\* (mutant of Start: the stream is stored in self.stream before play() is
\* checked, so a refused play() leaves a running stream behind)
StartStoresStreamBeforePlay(outcome) ==
    /\ ctl = "ready"
    /\ startCalls < MaxStarts
    /\ ~CallbackInFlight
    /\ startCalls' = startCalls + 1
    /\ IF outcome \in {"no_device", "no_config", "create_failed"}
       THEN \* lines 26, 29, 36: the panic comes before the file is touched
            /\ ctl' = "panicked"
            /\ UNCHANGED <<stream, file, disk, origin, cursor, lock, poisoned, cb,
                           data, cbLeft, stops, appended, lateBytes, framesDone>>
       ELSE IF config.sample_format = "Other"
       THEN \* File::create has truncated the file; write_wav_header panics
            /\ ctl' = "panicked"
            /\ disk' = [exists |-> TRUE, bytes |-> <<>>]
            /\ origin' = <<>>
            /\ UNCHANGED <<stream, file, cursor, lock, poisoned, cb, data,
                           cbLeft, stops, appended, lateBytes, framesDone>>
       ELSE /\ disk' = [exists |-> TRUE, bytes |-> WavHeader(config)]
            /\ origin' = Zeros(HeaderLen)
            /\ cursor' = HeaderLen
            /\ file' = [some |-> TRUE, id |-> startCalls + 1]
            /\ lock' = "free"
            /\ poisoned' = FALSE
            /\ stops' = 0
            /\ appended' = 0
            /\ lateBytes' = 0
            /\ framesDone' = 0
            /\ IF outcome = "ok"
               THEN /\ stream' = [some |-> TRUE, id |-> startCalls + 1, playing |-> TRUE]
                    /\ cb' = "idle"
                    /\ data' = <<>>
                    /\ cbLeft' = 0
                    /\ ctl' = "ready"
               ELSE /\ ctl' = "panicked"
                    /\ stream' = [some |-> TRUE, id |-> startCalls + 1,
                                  playing |-> outcome = "play_failed"]
                    /\ UNCHANGED <<cb, data, cbLeft>>
    /\ UNCHANGED <<config, main, errors, cbSeq, lenAtLock, file_size, stopCalls, everStopped>>

\* ------------------------------------------------------ AudioCapture::start
\* start() has no guard on self.stream or self.file: every call runs the whole
\* body.  A panic (expect, unwrap, panic!) ends the controller, and with it the
\* process.  Replacing self.stream drops the old Stream, which ends its thread:
\* start() returns only when no callback of the old stream is in flight.
Start(outcome) ==
    /\ ctl = "ready"
    /\ startCalls < MaxStarts
    /\ ~CallbackInFlight
    /\ startCalls' = startCalls + 1
    /\ IF outcome \in {"no_device", "no_config", "create_failed"}
       THEN \* lines 26, 29, 36: the panic comes before the file is touched
            /\ ctl' = "panicked"
            /\ UNCHANGED <<stream, file, disk, origin, cursor, lock, poisoned, cb,
                           data, cbLeft, stops, appended, lateBytes, framesDone>>
       ELSE IF config.sample_format = "Other"
       THEN \* File::create has truncated the file; write_wav_header panics
            /\ ctl' = "panicked"
            /\ disk' = [exists |-> TRUE, bytes |-> <<>>]
            /\ origin' = <<>>
            /\ UNCHANGED <<stream, file, cursor, lock, poisoned, cb, data,
                           cbLeft, stops, appended, lateBytes, framesDone>>
       ELSE /\ disk' = [exists |-> TRUE, bytes |-> WavHeader(config)]
            /\ origin' = Zeros(HeaderLen)
            /\ cursor' = HeaderLen
            /\ file' = [some |-> TRUE, id |-> startCalls + 1]
            /\ lock' = "free"
            /\ poisoned' = FALSE
            /\ stops' = 0
            /\ appended' = 0
            /\ lateBytes' = 0
            /\ framesDone' = 0
            /\ IF outcome = "ok"
               THEN /\ stream' = [some |-> TRUE, id |-> startCalls + 1, playing |-> TRUE]
                    /\ cb' = "idle"
                    /\ data' = <<>>
                    /\ cbLeft' = 0
                    /\ ctl' = "ready"
               ELSE \* lines 60, 61: self.stream keeps what it held
                    /\ ctl' = "panicked"
                    /\ UNCHANGED <<stream, cb, data, cbLeft>>
    /\ UNCHANGED <<config, main, errors, cbSeq, lenAtLock, file_size, stopCalls, everStopped>>

\* ------------------------------------------------------- AudioCapture::stop
\* (mutant of StopCall: stop() goes on to the header without looking at self.file)
StopCallNoFileCheck(pauseOk) ==
    /\ ctl = "ready"
    /\ stopCalls < MaxStops
    /\ stopCalls' = stopCalls + 1
    /\ ctl' = "stop_lock"
    /\ stream' = IF stream.some THEN [stream EXCEPT !.playing = FALSE] ELSE stream
    /\ everStopped' = (everStopped \/ stream.some)
    /\ UNCHANGED <<config, main, errors, file, disk, origin, cursor, lock, poisoned, cb, data,
                   cbLeft, cbSeq, lenAtLock, file_size, startCalls, stops, appended,
                   lateBytes, framesDone>>

\* stop() up to the lock: pause the stream if there is one; with no file handle
\* stop() returns here.
StopCall(pauseOk) ==
    /\ ctl = "ready"
    /\ stopCalls < MaxStops
    /\ stopCalls' = stopCalls + 1
    /\ IF stream.some /\ ~pauseOk
       THEN /\ ctl' = "panicked"
            /\ UNCHANGED <<stream, everStopped>>
       ELSE /\ stream' = IF stream.some THEN [stream EXCEPT !.playing = FALSE] ELSE stream
            /\ everStopped' = (everStopped \/ stream.some)
            /\ ctl' = IF file.some THEN "stop_lock" ELSE "ready"
    /\ UNCHANGED <<config, main, errors, file, disk, origin, cursor, lock, poisoned, cb, data,
                   cbLeft, cbSeq, lenAtLock, file_size, startCalls, stops, appended,
                   lateBytes, framesDone>>

\* (mutant of StopLock: the controller goes on without waiting for the lock)
StopLockNoWait ==
    /\ ctl = "stop_lock"
    /\ ctl' = "stop_seek"
    /\ lock' = "controller"
    /\ UNCHANGED <<config, main, errors, stream, file, disk, origin, cursor, poisoned, cb, data,
                   cbLeft, cbSeq, lenAtLock, file_size, startCalls, stopCalls, stops,
                   appended, lateBytes, framesDone, everStopped>>

\* file_arc.lock().unwrap()
StopLock ==
    /\ ctl = "stop_lock"
    /\ lock = "free"
    /\ IF poisoned
       THEN ctl' = "panicked" /\ UNCHANGED lock
       ELSE ctl' = "stop_seek" /\ lock' = "controller"
    /\ UNCHANGED <<config, main, errors, stream, file, disk, origin, cursor, poisoned, cb, data,
                   cbLeft, cbSeq, lenAtLock, file_size, startCalls, stopCalls, stops,
                   appended, lateBytes, framesDone, everStopped>>

\* (mutant of StopSeekEnd: the size is taken from the current position, not
\* from the end of the file)
StopSeekEndFromCursor ==
    /\ ctl = "stop_seek"
    /\ file_size' = cursor
    /\ ctl' = "stop_riff"
    /\ UNCHANGED <<config, main, errors, stream, file, disk, origin, cursor, lock, poisoned,
                   cb, data, cbLeft, cbSeq, lenAtLock, startCalls, stopCalls, stops,
                   appended, lateBytes, framesDone, everStopped>>

\* let file_size = file.seek(SeekFrom::End(0)).unwrap();
StopSeekEnd ==
    /\ ctl = "stop_seek"
    /\ file_size' = Len(disk.bytes)
    /\ cursor' = Len(disk.bytes)
    /\ ctl' = "stop_riff"
    /\ UNCHANGED <<config, main, errors, stream, file, disk, origin, lock, poisoned, cb, data,
                   cbLeft, cbSeq, lenAtLock, startCalls, stopCalls, stops, appended,
                   lateBytes, framesDone, everStopped>>

\* seek(Start(4)); write_all(&(file_size - 8).to_le_bytes())
StopWriteRiff ==
    /\ ctl = "stop_riff"
    /\ disk' = [disk EXCEPT !.bytes = WriteAt(@, RiffSizeOffset, RiffSizeBytes(file_size))]
    /\ origin' = WriteAt(origin, RiffSizeOffset, Zeros(Len(RiffSizeBytes(file_size))))
    /\ cursor' = RiffSizeOffset + Len(RiffSizeBytes(file_size))
    /\ ctl' = "stop_data"
    /\ UNCHANGED <<config, main, errors, stream, file, lock, poisoned, cb, data, cbLeft, cbSeq,
                   lenAtLock, file_size, startCalls, stopCalls, stops, appended,
                   lateBytes, framesDone, everStopped>>

\* seek(Start(40)); write_all(&(data_chunk_size as u32).to_le_bytes()); the
\* guard drops as stop() returns.
StopWriteData ==
    /\ ctl = "stop_data"
    /\ disk' = [disk EXCEPT !.bytes = WriteAt(@, DataSizeOffset, DataSizeBytes(file_size))]
    /\ origin' = WriteAt(origin, DataSizeOffset, Zeros(Len(DataSizeBytes(file_size))))
    /\ cursor' = DataSizeOffset + Len(DataSizeBytes(file_size))
    /\ lock' = "free"
    /\ ctl' = "ready"
    /\ stops' = stops + 1
    /\ file_size' = 0
    /\ UNCHANGED <<config, main, errors, stream, file, poisoned, cb, data, cbLeft, cbSeq,
                   lenAtLock, startCalls, stopCalls, appended, lateBytes,
                   framesDone, everStopped>>

\* -------------------------------------- AudioCapture::capture, data callback
\* The device delivers a buffer of n equal frames to a playing stream.
CallbackEnter(n, frame) ==
    /\ ctl # "panicked"
    /\ stream.some /\ stream.playing
    /\ cb = "idle"
    /\ cbSeq < MaxCallbacks
    /\ cb' = "lock"
    /\ data' = Repeat(frame, n)
    /\ cbSeq' = cbSeq + 1
    /\ UNCHANGED <<config, main, errors, stream, file, disk, origin, cursor, lock, poisoned, cbLeft,
                   lenAtLock, ctl, file_size, startCalls, stopCalls, stops, appended,
                   lateBytes, framesDone, everStopped>>

\* let mut file_lock = file.lock().unwrap();
CallbackLock ==
    /\ ctl # "panicked"
    /\ cb = "lock"
    /\ lock = "free"
    /\ IF poisoned
       THEN cb' = "panicked" /\ UNCHANGED <<lock, cbLeft, lenAtLock>>
       ELSE /\ cb' = "write"
            /\ lock' = "callback"
            /\ cbLeft' = SamplesToWrite(data)
            /\ lenAtLock' = Len(disk.bytes)
    /\ UNCHANGED <<config, main, errors, stream, file, disk, origin, cursor, poisoned, data,
                   cbSeq, ctl, file_size, startCalls, stopCalls, stops, appended,
                   lateBytes, framesDone, everStopped>>

\* One pass of the inner loop: convert the sample, write_all its bytes at the
\* cursor.  wrote = Len of the bytes: the write succeeded; fewer: write_all
\* failed after `wrote` bytes and unwrap() panics, which poisons the lock.
CallbackWrite(wrote) ==
    /\ ctl # "panicked"
    /\ cb = "write"
    /\ cbLeft > 0
    /\ LET sample == data[SamplesToWrite(data) - cbLeft + 1]
           s == SampleBytes(config.sample_format, sample)
           written == IF s.ok THEN SubSeq(s.bytes, 1, wrote) ELSE <<>>
       IN  /\ s.ok => wrote \in PartialCounts(Len(s.bytes)) \cup {Len(s.bytes)}
           /\ ~s.ok => wrote = 0
           /\ disk' = [disk EXCEPT !.bytes = WriteAt(@, cursor, written)]
           /\ origin' = WriteAt(origin, cursor, [i \in 1..Len(written) |-> cbSeq])
           /\ cursor' = cursor + Len(written)
           /\ appended' = appended + Len(written)
           /\ lateBytes' = IF stops > 0 THEN lateBytes + Len(written) ELSE lateBytes
           /\ IF s.ok /\ wrote = Len(s.bytes)
              THEN /\ cbLeft' = cbLeft - 1
                   /\ UNCHANGED <<cb, lock, poisoned>>
              ELSE /\ cb' = "panicked"
                   /\ lock' = "free"
                   /\ poisoned' = TRUE
                   /\ UNCHANGED cbLeft
    /\ UNCHANGED <<config, main, errors, stream, file, data, cbSeq, lenAtLock, ctl, file_size,
                   startCalls, stopCalls, stops, framesDone, everStopped>>

\* The closure returns: the guard drops.
CallbackReturn ==
    /\ ctl # "panicked"
    /\ cb = "write"
    /\ cbLeft = 0
    /\ cb' = "idle"
    /\ lock' = "free"
    /\ framesDone' = framesDone + Len(data) \div config.channels
    /\ data' = <<>>
    /\ lenAtLock' = 0
    /\ UNCHANGED <<config, main, errors, stream, file, disk, origin, cursor, poisoned,
                   cbLeft, cbSeq, ctl, file_size, startCalls, stopCalls,
                   stops, appended, lateBytes, everStopped>>

Next ==
    \/ \E outcome \in StartOutcomes : Start(outcome)
    \/ \E pauseOk \in BOOLEAN : StopCall(pauseOk)
    \/ StopLock
    \/ StopSeekEnd
    \/ StopWriteRiff
    \/ StopWriteData
    \/ \E n \in 1..MaxFrames, frame \in Frames(config) : CallbackEnter(n, frame)
    \/ CallbackLock
    \/ \E wrote \in 0..8 : CallbackWrite(wrote)
    \/ CallbackReturn

Spec == Init /\ [][Next]_vars

\* The same session on a device whose default config has three channels.
InitMultiChannel == config \in MultiChannelConfigs /\ InitSession

MultiChannelSpec == InitMultiChannel /\ [][Next]_vars

\* --------------------------------------------------- err_fn, error callback
\* (mutant of ErrorCallback: the error callback also pauses the stream)
ErrorCallbackPauses ==
    /\ ctl # "panicked"
    /\ stream.some
    /\ cb # "panicked"
    /\ errors.count < MaxErrors
    /\ errors' = [count |-> errors.count + 1, last |-> cbSeq]
    /\ stream' = [stream EXCEPT !.playing = FALSE]
    /\ UNCHANGED <<config, main, file, disk, origin, cursor, lock, poisoned, cb,
                   data, cbLeft, cbSeq, lenAtLock, ctl, file_size, startCalls,
                   stopCalls, stops, appended, lateBytes, framesDone, everStopped>>

\* let err_fn = |err| eprintln!(..): the device reports a runtime error; the
\* closure writes a line to stderr and returns.  `errors` is that log: the
\* number of lines, and the number of data callbacks begun before the last.
ErrorCallback ==
    /\ ctl # "panicked"
    /\ stream.some
    /\ cb # "panicked"
    /\ errors.count < MaxErrors
    /\ errors' = [count |-> errors.count + 1, last |-> cbSeq]
    /\ UNCHANGED <<config, main, stream, file, disk, origin, cursor, lock, poisoned,
                   cb, data, cbLeft, cbSeq, lenAtLock, ctl, file_size, startCalls,
                   stopCalls, stops, appended, lateBytes, framesDone, everStopped>>

\* ------------------------------------------------ main.rs, Commands::Capture
captureVars == <<config, stream, file, disk, origin, cursor, lock, poisoned, cb,
                 data, cbLeft, cbSeq, lenAtLock, ctl, file_size, startCalls,
                 stopCalls, stops, appended, lateBytes, framesDone, everStopped,
                 errors>>

\* The process is running: not ended by a panic, a signal or the return of main.
MainAlive == main.pc \in {"start", "loop", "stop"} /\ ctl # "panicked"

\* audio_capture.start();
MainStart(outcome) ==
    /\ main.pc = "start"
    /\ startCalls = 0
    /\ Start(outcome)

\* ctrlc::set_handler(move || r.store(false)), after start() has returned
MainSetHandler ==
    /\ main.pc = "start"
    /\ startCalls = 1
    /\ ctl = "ready"
    /\ main' = [main EXCEPT !.pc = "loop", !.handler = TRUE]
    /\ UNCHANGED captureVars

\* while running.load() { sleep } : the loop ends once the flag reads false
MainLoopExit ==
    /\ main.pc = "loop"
    /\ ~main.running
    /\ main' = [main EXCEPT !.pc = "stop"]
    /\ UNCHANGED captureVars

\* audio_capture.stop();
MainStop(pauseOk) ==
    /\ main.pc = "stop"
    /\ stopCalls = 0
    /\ StopCall(pauseOk)

\* stop() has returned: println!, main returns, the process ends
MainReturn ==
    /\ main.pc = "stop"
    /\ stopCalls = 1
    /\ ctl = "ready"
    /\ main' = [main EXCEPT !.pc = "done"]
    /\ UNCHANGED captureVars

\* Ctrl-C is delivered to the process, any number of times.  With the handler
\* installed it stores false in `running`; without it the default disposition
\* ends the process.
Sigint ==
    /\ MainAlive
    /\ main' = IF main.handler
               THEN [main EXCEPT !.running = FALSE, !.interrupted = TRUE]
               ELSE [main EXCEPT !.pc = "killed", !.interrupted = TRUE]
    /\ UNCHANGED captureVars

MainInit == config \in DeviceConfigs /\ InitFields /\ main = MainAtStart

MainNext ==
    \/ \E outcome \in StartOutcomes : MainStart(outcome)
    \/ MainSetHandler
    \/ MainLoopExit
    \/ \E pauseOk \in BOOLEAN : MainStop(pauseOk)
    \/ MainReturn
    \/ Sigint
    \/ MainAlive /\ StopLock
    \/ MainAlive /\ StopSeekEnd
    \/ MainAlive /\ StopWriteRiff
    \/ MainAlive /\ StopWriteData
    \/ MainAlive /\ \E n \in 1..MaxFrames, frame \in Frames(config) : CallbackEnter(n, frame)
    \/ MainAlive /\ CallbackLock
    \/ MainAlive /\ \E wrote \in 0..8 : CallbackWrite(wrote)
    \/ MainAlive /\ CallbackReturn
    \/ MainAlive /\ ErrorCallback

MainSpec == MainInit /\ [][MainNext]_vars

\* The threads are scheduled fairly: a step of stop() or of the callback that
\* stays possible is taken.
MainFairness ==
    /\ WF_vars(MainAlive /\ StopLock)
    /\ WF_vars(MainAlive /\ StopSeekEnd)
    /\ WF_vars(MainAlive /\ StopWriteRiff)
    /\ WF_vars(MainAlive /\ StopWriteData)
    /\ WF_vars(MainAlive /\ CallbackLock)
    /\ WF_vars(MainAlive /\ \E wrote \in 0..8 : CallbackWrite(wrote))
    /\ WF_vars(MainAlive /\ CallbackReturn)

FairMainSpec == MainSpec /\ MainFairness

\* ------------------------------------------------ audio_transcribe.rs, reader
\* Whisper::transcribe_file goes on only for a file whose header says one channel.
TranscribeChannelsOk(bytes) == U16At(bytes, 22) = 1

\* ------------------------------------------------------------------ claims
Running == stream.some /\ stream.playing
Payload == Len(disk.bytes) - HeaderLen
InFinalize == ctl \in {"stop_seek", "stop_riff", "stop_data"}
PatchedOffsets == (4..7) \cup (40..43)

\* C1: after start, k callbacks that appended `appended` bytes in all, and stop
\* (no callback writing after the finalize), the file is 44 + appended bytes
\* long, the little-endian u32 at offset 40 is `appended` and the one at offset
\* 4 is appended + 36.
C1_RoundTrip ==
    (stops >= 1 /\ lateBytes = 0) =>
        /\ Len(disk.bytes) = HeaderLen + appended
        /\ U32At(disk.bytes, 40) = appended
        /\ U32At(disk.bytes, 4) = appended + 36

\* C1 witness: start, two callbacks that returned, one stop, a payload.
C1_Witness ==
    /\ startCalls = 1 /\ stops = 1 /\ lateBytes = 0 /\ ctl = "ready"
    /\ cbSeq = 2 /\ cb = "idle" /\ appended > 0

\* C2: while the controller holds the lock (stop() is in update_wav_header) a
\* step changes no byte of the file outside offsets 4..7 and 40..43, and not
\* its length.
C2_FinalizeWritesTwoFields ==
    [][lock = "controller" =>
        /\ Len(disk'.bytes) = Len(disk.bytes)
        /\ \A i \in 1..Len(disk.bytes) :
              (i - 1) \notin PatchedOffsets => disk'.bytes[i] = disk.bytes[i]]_vars

\* C3: once a stop() has finalized the header and returned, the header's
\* data_size field equals file_length - 44, in every later state.
C3_NoAppendAfterFinalize ==
    (stops >= 1 /\ ctl = "ready") => U32At(disk.bytes, 40) = Len(disk.bytes) - HeaderLen

\* C4: the callback's writes and stop()'s seek/write sequence exclude each
\* other, and each holds the lock from its first file operation to its last.
C4_MutualExclusion ==
    /\ ~(cb = "write" /\ InFinalize)
    /\ cb = "write" => lock = "callback"
    /\ InFinalize => lock = "controller"

\* C4 witness: stop() waits for the lock while a callback is between two writes
\* of its buffer.
C4_Witness ==
    /\ ctl = "stop_lock" /\ cb = "write"
    /\ cbLeft > 0 /\ cbLeft < Len(data)

\* C5: the payload is the concatenation of the callbacks' bytes in delivery
\* order: along the file the payload bytes' origins never decrease (a byte of
\* an earlier buffer never follows a byte of a later one, and the bytes of one
\* buffer are contiguous).  Stated for the runs in which no callback failed.
C5_DeliveryOrder ==
    cb # "panicked" =>
        \A i, j \in (HeaderLen + 1)..Len(origin) : i < j => origin[i] <= origin[j]

\* C6: once a stop() has paused the session's stream, the session is never
\* Running again.
C6_NoRunningAfterStopped == everStopped => ~Running

\* C7: a start() call on a Running session leaves the file, the file handle and
\* the stream as they were.
C7_StartWhileRunningRejected ==
    [][(Running /\ startCalls' # startCalls) =>
        (disk' = disk /\ file' = file /\ stream' = stream)]_vars

\* C8: as long as start() was never called, stop() calls return normally and
\* leave no file, no handle, no stream and the lock untouched.
C8_StopBeforeStartNoop ==
    startCalls = 0 =>
        /\ ctl = "ready"
        /\ ~disk.exists /\ disk.bytes = <<>>
        /\ file = NoFile /\ stream = NoStream
        /\ lock = "free" /\ ~poisoned /\ cursor = 0 /\ cb = "idle"

\* C8 witness: two stop() calls and no start().
C8_Witness == startCalls = 0 /\ stopCalls = 2 /\ ctl = "ready"

C11_OtherChannelCountRefused ==
    config.channels \notin {1, 2} => (~Running /\ cb = "idle" /\ appended = 0)

\* The callback panicked on the conversion of the sample it had reached (an
\* unwrap() of to_u8/to_u16 on None), not on a failed write.
ConversionPanicked ==
    /\ cb = "panicked"
    /\ cbLeft > 0
    /\ ~SampleBytes(config.sample_format, data[SamplesToWrite(data) - cbLeft + 1]).ok

\* C12, first half: a device whose sample kind is not 16-bit integer, 32-bit
\* float or 64-bit float never gets a stream.
C12_UnsupportedKindRejected ==
    config.sample_format \notin {"I16", "F32", "F64"} => ~stream.some

\* C12, second half: no callback fails on the value of a sample.
C12_NoSampleValueFailure == ~ConversionPanicked

\* C12: an unsupported sample kind is rejected by start(), and no data callback
\* of an accepted configuration fails on the kind or value of a sample.
C12_KindsRejectedSamplesAccepted ==
    C12_UnsupportedKindRejected /\ C12_NoSampleValueFailure

\* C13: a stop() that waits for the lock after a callback has failed is not
\* made to fail by it: its next step is not a panic.
C13_StopSurvivesCallbackFailure ==
    [][(ctl = "stop_lock" /\ cb = "panicked") => ctl' # "panicked"]_vars

\* C17: whenever the lock is free, the payload is a whole number of frames
\* (channels * size_of(sample) bytes each).
C17_WholeFrames ==
    (lock = "free" /\ Len(disk.bytes) >= HeaderLen) =>
        Payload % (config.channels * SizeOf(config.sample_format)) = 0

\* C14: a failing start() on a session that is not running ends the controller
\* in that same step (the failure is an expect() panic, never retried) and
\* leaves the session as not started as it was: the stream slot is unchanged
\* and not running, no callback is begun, and once the controller has ended no
\* start() is run again, no callback begins and the file no longer changes.
C14_SetupFailureLeavesNotStarted ==
    [][/\ (ctl = "ready" /\ ctl' = "panicked" /\ ~Running) =>
            /\ stream' = stream
            /\ ~(stream'.some /\ stream'.playing)
            /\ cb' = cb
            /\ appended' \in {appended, 0}
       /\ (ctl = "panicked" /\ ~Running) =>
            /\ startCalls' = startCalls
            /\ stream' = stream
            /\ ctl' = "panicked"
            /\ ~CallbackInFlight => (cb' = cb /\ disk' = disk)
      ]_vars

\* a start() has failed after the header was written (stream not built, or
\* play refused) on a session that holds no stream
C14_Witness ==
    /\ ctl = "panicked"
    /\ file.some
    /\ ~stream.some
    /\ disk.bytes = WavHeader(config)

\* C15: in the capture command stop() is called only once the flag has been
\* cleared by an interrupt, at most once, and an interrupt delivered after
\* start() has returned never ends the process before stop().
C15_InterruptLeadsToStop ==
    /\ stopCalls > 0 => (main.interrupted /\ ~main.running)
    /\ stopCalls <= 1
    /\ (startCalls = 1 /\ main.interrupted) => main.pc # "killed"

\* C16: a stop() that has paused the stream and waits for the lock eventually
\* returns with the header finalized.
C16_StopTerminates ==
    (main.pc = "stop" /\ ctl = "stop_lock") ~> (ctl = "ready" /\ stops = 1)

\* C18: an error callback only logs: the step that adds a line to the error
\* log changes nothing else (session, file, cursor, lock, stream, controller),
\* and every sample a data callback writes, before or after an error, is the
\* conversion of that sample written at the cursor.
C18_ErrorCallbackOnlyLogs ==
    [][/\ errors' # errors =>
            /\ UNCHANGED <<config, main>>
            /\ UNCHANGED <<stream, file, disk, origin, cursor, lock, poisoned, cb,
                           data, cbLeft, cbSeq, lenAtLock, ctl, file_size,
                           startCalls, stopCalls, stops, appended, lateBytes,
                           framesDone, everStopped>>
       /\ (cb = "write" /\ cbLeft' = cbLeft - 1) =>
            SubSeq(disk'.bytes, cursor + 1, cursor') =
                SampleBytes(config.sample_format,
                            data[SamplesToWrite(data) - cbLeft + 1]).bytes
      ]_vars

\* an error was reported before any data callback, the stream is still running
\* and a data callback delivered after it has appended its buffer and returned
C18_Witness ==
    /\ errors.count > 0
    /\ errors.last = 0
    /\ Running
    /\ cbSeq > 0
    /\ cb = "idle"
    /\ appended > 0
    /\ Len(disk.bytes) = HeaderLen + appended

\* C19: once stop() has finalized the file, and as long as nothing is appended,
\* no step changes a byte of it: the steps of a second stop() rewrite the sizes
\* they find; and after the second stop() the u32 at 40 is the file length - 44
\* and the u32 at 4 the file length - 8.
C19_SecondFinalizeChangesNothing ==
    [][(stops >= 1 /\ stops' >= 1 /\ lateBytes = 0 /\ lateBytes' = 0) =>
            /\ disk' = disk
            /\ stops' >= 2 =>
                 /\ U32At(disk'.bytes, DataSizeOffset) = Len(disk'.bytes) - HeaderLen
                 /\ U32At(disk'.bytes, RiffSizeOffset) = Len(disk'.bytes) - 8
      ]_vars

\* stop() has finalized twice a file that holds appended samples, with no
\* append after the first
C19_Witness ==
    /\ stops = 2
    /\ lateBytes = 0
    /\ ctl = "ready"
    /\ Payload > 0

====
